---- MODULE Spec2Model ----
(***************************************************************************)
(* Model of the hand-gesture pipeline of the tarot card selector:          *)
(*   - gestureRecognition (src/unnamed/part_003): the geometric            *)
(*     classifiers, detectGesture and the GestureStateManager, which the   *)
(*     specification calls the DebounceGate.                               *)
(*   - GestureCardSelector (src/src/components/GestureCardSelector.tsx):   *)
(*     the frame loop that feeds them, the hover index and the selection.  *)
(*   - api (src/src/hooks/useHandTracking.ts, lines 150-351): analyzeTarot *)
(*     and generateWithRetry.                                              *)
(*                                                                         *)
(* Coordinates are integers in thousandths of the normalised camera range  *)
(* (0.07 is 70).  Every coordinate the model feeds in is a multiple of 5,  *)
(* so the division by the five palm joints is exact.  Time is in           *)
(* milliseconds, as Date.now() returns it.                                 *)
(***************************************************************************)
EXTENDS Integers, Sequences, FiniteSets

VARIABLES
    lastGesture,        \* GestureStateManager.lastGesture
    gestureStartTime,   \* GestureStateManager.gestureStartTime
    now,                \* the latest reading of Date.now()
    hist,               \* the latest calls made on the manager, oldest first
    runEmits,           \* events emitted during the current run of equal inputs
    landmarks,          \* the frame handed to the classifiers
    previousLandmarks,  \* the frame before it
    ret,                \* what the last classifier call returned
    accumulatedX,       \* SwipeTracker.accumulatedX
    accumulatedY,       \* SwipeTracker.accumulatedY
    frameCount,         \* SwipeTracker.frameCount
    lastDirection,      \* SwipeTracker.lastDirection
    tracked,            \* the latest call made on the tracker
    previousLandmarksRef,   \* GestureCardSelector: previousLandmarksRef.current
    frame,              \* what processFrame did with the latest video frame
    hoveredIndex,       \* GestureCardSelector: hoveredIndex, NoIndex for null
    hoveredIndexRef,    \* GestureCardSelector: hoveredIndexRef.current
    selectedCardIds,    \* GestureCardSelector: selectedCardIds
    isComplete,         \* GestureCardSelector: isComplete
    analysis,           \* api: the analyzeTarot call in progress
    emits,              \* the latest two events the manager emitted, as a caller sees them
    camera              \* useCamera: its refs and state and the getUserMedia calls made

gateVars == <<lastGesture, gestureStartTime, now, hist, runEmits>>
frameVars == <<landmarks, previousLandmarks, ret>>
trackerVars == <<accumulatedX, accumulatedY, frameCount, lastDirection, tracked>>
loopVars == <<previousLandmarksRef, frame,
              hoveredIndex, hoveredIndexRef, selectedCardIds, isComplete>>
vars == <<lastGesture, gestureStartTime, now, hist, runEmits,
          landmarks, previousLandmarks, ret,
          accumulatedX, accumulatedY, frameCount, lastDirection, tracked,
          previousLandmarksRef, frame,
          hoveredIndex, hoveredIndexRef, selectedCardIds, isComplete, analysis,
          emits, camera>>
apiVars == <<analysis>>
spacingVars == <<emits>>
cameraVars == <<camera>>

----------------------------------------------------------------------------
(* Bounds of the model *)

TickMs == 200       \* granularity of the clock readings
MaxTicks == 8       \* the clock is read at 0, TickMs, ..., MaxTicks * TickMs
HistLen == 3        \* how many calls hist remembers
MaxShift == 4       \* the previous palm lies up to MaxShift * 5 thousandths away
MaxLoopSteps == 5   \* the palm of the frame loop lies up to MaxLoopSteps * 15 thousandths off
MaxCameraCalls == 3 \* how many times startCamera is called on one hook

Times == {k * TickMs : k \in 0..MaxTicks}

----------------------------------------------------------------------------
(* gestureRecognition: types and thresholds *)

Gesture == {"swipe-left", "swipe-right", "swipe-up", "fist", "none"}
NULL == "null"

SWIPE_THRESHOLD == 60
SWIPE_FRAME_THRESHOLD == 15
FIST_THRESHOLD == 70
OPEN_THRESHOLD == 50
HandPoints == 21

WRIST == 0
INDEX_MCP == 5
INDEX_TIP == 8
MIDDLE_MCP == 9
MIDDLE_TIP == 12
RING_MCP == 13
RING_TIP == 16
PINKY_MCP == 17
PINKY_TIP == 20

----------------------------------------------------------------------------
(* GestureStateManager: the DebounceGate *)

cooldownMs == 600

\* the repeat check dropped: only the cooldown holds a repeated gesture back
SameGesture_never(gesture, lg) == FALSE

\* line 273: the same gesture as the one recorded is ignored
SameGesture(gesture, lg) == gesture = lg /\ gesture # "none"

\* the window closed one millisecond late
InCooldown_inclusive(gesture, start, t) == t - start <= cooldownMs /\ gesture # "none"

\* line 278: a gesture inside the cooldown window is ignored
InCooldown(gesture, start, t) == t - start < cooldownMs /\ gesture # "none"

\* the emitted gesture never recorded
RecordGesture_forgets(gesture, lg) == IF gesture # "none" THEN lg ELSE "none"

\* lastGesture after a call that got past both early returns (lines 283-292)
RecordGesture(gesture, lg) ==
    IF gesture # "none" THEN gesture
    ELSE IF gesture = "none" /\ lg # "none" THEN "none"
    ELSE lg

\* the emission not stamped with the clock reading
RecordTime_keeps(gesture, start, t) == start

\* a none input clearing the stamp along with the gesture
RecordTime_clears(gesture, start, t) == IF gesture # "none" THEN t ELSE 0

\* gestureStartTime after a call that got past both early returns (line 285)
RecordTime(gesture, start, t) == IF gesture # "none" THEN t ELSE start

\* the cooldown holding back only the gesture it was started by
processGesture_perGesture(gesture, lg, start, t) ==
    IF SameGesture(gesture, lg) /\ InCooldown(gesture, start, t)
    THEN [ret |-> NULL, lastGesture |-> lg, gestureStartTime |-> start]
    ELSE [ret |-> IF gesture # "none" THEN gesture ELSE NULL,
          lastGesture |-> RecordGesture(gesture, lg),
          gestureStartTime |-> RecordTime(gesture, start, t)]

\* processGesture(gesture) with Date.now() = t on a manager holding (lg, start):
\* the value returned and the fields afterwards
processGesture(gesture, lg, start, t) ==
    IF SameGesture(gesture, lg)
    THEN [ret |-> NULL, lastGesture |-> lg, gestureStartTime |-> start]
    ELSE IF InCooldown(gesture, start, t)
    THEN [ret |-> NULL, lastGesture |-> lg, gestureStartTime |-> start]
    ELSE [ret |-> IF gesture # "none" THEN gesture ELSE NULL,
          lastGesture |-> RecordGesture(gesture, lg),
          gestureStartTime |-> RecordTime(gesture, start, t)]

\* reset() stamping the clock reading instead of clearing the stamp
reset_stampsNow == [lastGesture |-> "none", gestureStartTime |-> now]

\* reset(): the fields afterwards
reset == [lastGesture |-> "none", gestureStartTime |-> 0]

\* hist with one more call, the oldest dropped beyond HistLen
Remember(h, call) ==
    IF Len(h) < HistLen THEN Append(h, call) ELSE Append(Tail(h), call)

\* the gesture fed by the latest call, "none" when that call was not a
\* processGesture or there was none
HeldGesture(h) ==
    IF h # <<>> /\ h[Len(h)].op = "processGesture" THEN h[Len(h)].gesture
    ELSE "none"

\* events emitted in the run of equal inputs that the call of gesture extends
\* or begins
RunEmits(h, count, gesture, out) ==
    LET before == IF gesture # "none" /\ gesture = HeldGesture(h) THEN count ELSE 0
        total == before + (IF out # NULL THEN 1 ELSE 0)
    IN IF total > 2 THEN 2 ELSE total

InitGate ==
    /\ lastGesture = "none"
    /\ gestureStartTime = 0
    /\ now \in Times
    /\ hist = <<>>
    /\ runEmits = 0

\* one frame's call of processGesture, Date.now() reading t
ProcessGesture(gesture, t) ==
    /\ t >= now
    /\ LET r == processGesture(gesture, lastGesture, gestureStartTime, t)
       IN /\ lastGesture' = r.lastGesture
          /\ gestureStartTime' = r.gestureStartTime
          /\ hist' = Remember(hist, [op |-> "processGesture", gesture |-> gesture,
                                     ret |-> r.ret])
          /\ runEmits' = RunEmits(hist, runEmits, gesture, r.ret)
    /\ now' = t

Reset ==
    /\ lastGesture' = reset.lastGesture
    /\ gestureStartTime' = reset.gestureStartTime
    /\ hist' = Remember(hist, [op |-> "reset", gesture |-> "none", ret |-> NULL])
    /\ runEmits' = 0
    /\ now' = now

\* no clock reading
NoTime == -1

\* no event emitted since the manager was created or reset
NoEmits == [last |-> NoTime, gap |-> NoTime, nones |-> 0, since |-> 0]

IdleSpacing == emits = NoEmits

\* what a caller of processGesture(gesture), returning out at Date.now() = t,
\* knows of the events so far: the time of the latest event, the time from
\* the event before it to the latest, the none inputs fed between those two
\* and the none inputs fed since the latest (both counted up to 2)
Observe(e, gesture, out, t) ==
    IF out # NULL
    THEN [last |-> t,
          gap |-> IF e.last = NoTime THEN NoTime ELSE t - e.last,
          nones |-> e.since,
          since |-> 0]
    ELSE IF gesture = "none" /\ e.last # NoTime
    THEN [e EXCEPT !.since = IF @ < 2 THEN @ + 1 ELSE 2]
    ELSE e

\* a call of processGesture and what its caller sees of it
ObservedGesture(gesture, t) ==
    /\ ProcessGesture(gesture, t)
    /\ emits' = Observe(emits, gesture, hist'[Len(hist')].ret, t)

\* reset(), after which the events before it are not compared with the ones
\* after it
ObservedReset ==
    /\ Reset
    /\ emits' = NoEmits

----------------------------------------------------------------------------
(* gestureRecognition: the classifiers and detectGesture *)

\* A LandmarkList | null: null is [null |-> TRUE], an array is its points in
\* order, point i of the source at position i + 1.
NullFrame == [null |-> TRUE, pts |-> <<>>]

\* what a call completes with: a value returned, or a TypeError thrown by
\* reading a coordinate of a missing point
Ok(v) == [threw |-> FALSE, value |-> v]
TypeError == [threw |-> TRUE, value |-> "TypeError"]

\* only null and the empty array taken for no hand
NoHand_emptyOnly(l) == l.null \/ Len(l.pts) = 0

\* !landmarks || landmarks.length < 21
NoHand(l) == l.null \/ Len(l.pts) < HandPoints

\* landmarks[idx]
At(l, idx) == l.pts[idx + 1]

\* reading a coordinate of landmarks[idx] throws for some idx of idxs
Throws(l, idxs) == l.null \/ \E idx \in idxs : idx >= Len(l.pts)

\* a finger at the threshold taken for closed
isFingerClosed_inclusive(l, tipIndex, mcpIndex) ==
    At(l, mcpIndex).y - At(l, tipIndex).y <= FIST_THRESHOLD

isFingerClosed(l, tipIndex, mcpIndex) ==
    LET yDistance == At(l, mcpIndex).y - At(l, tipIndex).y
    IN yDistance < FIST_THRESHOLD

FingerJoints ==
    {INDEX_TIP, INDEX_MCP, MIDDLE_TIP, MIDDLE_MCP, RING_TIP, RING_MCP,
     PINKY_TIP, PINKY_MCP}

isFist(l) ==
    IF NoHand(l) THEN Ok(FALSE)
    ELSE IF Throws(l, FingerJoints) THEN TypeError
    ELSE LET indexClosed == isFingerClosed(l, INDEX_TIP, INDEX_MCP)
             middleClosed == isFingerClosed(l, MIDDLE_TIP, MIDDLE_MCP)
             ringClosed == isFingerClosed(l, RING_TIP, RING_MCP)
             pinkyClosed == isFingerClosed(l, PINKY_TIP, PINKY_MCP)
         IN Ok(indexClosed /\ middleClosed /\ ringClosed /\ pinkyClosed)

\* open only with all four fingers extended
isPalmOpen_allFour(l) ==
    IF NoHand(l) THEN Ok(FALSE)
    ELSE IF Throws(l, FingerJoints) THEN TypeError
    ELSE Ok(\A idx \in {INDEX_MCP, MIDDLE_MCP, RING_MCP, PINKY_MCP} :
               At(l, idx).y - At(l, idx + 3).y > OPEN_THRESHOLD)

isPalmOpen(l) ==
    IF NoHand(l) THEN Ok(FALSE)
    ELSE IF Throws(l, FingerJoints) THEN TypeError
    ELSE LET indexOpen == At(l, INDEX_MCP).y - At(l, INDEX_TIP).y > OPEN_THRESHOLD
             middleOpen == At(l, MIDDLE_MCP).y - At(l, MIDDLE_TIP).y > OPEN_THRESHOLD
             ringOpen == At(l, RING_MCP).y - At(l, RING_TIP).y > OPEN_THRESHOLD
             pinkyOpen == At(l, PINKY_MCP).y - At(l, PINKY_TIP).y > OPEN_THRESHOLD
             flags == <<indexOpen, middleOpen, ringOpen, pinkyOpen>>
             openCount == Cardinality({i \in 1..4 : flags[i]})
         IN Ok(openCount >= 3)

mcpIndices == <<WRIST, INDEX_MCP, MIDDLE_MCP, RING_MCP, PINKY_MCP>>

RECURSIVE SumX(_, _, _)
SumX(l, idxs, k) ==
    IF k > Len(idxs) THEN 0 ELSE At(l, idxs[k]).x + SumX(l, idxs, k + 1)

RECURSIVE SumY(_, _, _)
SumY(l, idxs, k) ==
    IF k > Len(idxs) THEN 0 ELSE At(l, idxs[k]).y + SumY(l, idxs, k + 1)

\* the mean of the four knuckles, the wrist left out
getPalmCenter_knucklesOnly(l) ==
    IF NoHand(l) THEN Ok([x |-> 0, y |-> 0])
    ELSE IF Throws(l, {mcpIndices[k] : k \in 1..Len(mcpIndices)}) THEN TypeError
    ELSE Ok([x |-> SumX(l, mcpIndices, 2) \div (Len(mcpIndices) - 1),
             y |-> SumY(l, mcpIndices, 2) \div (Len(mcpIndices) - 1)])

getPalmCenter(l) ==
    IF NoHand(l) THEN Ok([x |-> 0, y |-> 0])
    ELSE IF Throws(l, {mcpIndices[k] : k \in 1..Len(mcpIndices)}) THEN TypeError
    ELSE Ok([x |-> SumX(l, mcpIndices, 1) \div Len(mcpIndices),
             y |-> SumY(l, mcpIndices, 1) \div Len(mcpIndices)])

\* up only for a move that is more vertical than horizontal, as in
\* SwipeTracker.track
getSwipeDirection_dominant(currentCenter, previousCenter) ==
    LET deltaX == currentCenter.x - previousCenter.x
        deltaY == currentCenter.y - previousCenter.y
    IN IF deltaY < -SWIPE_FRAME_THRESHOLD /\ -deltaY > deltaX /\ -deltaY > -deltaX
       THEN "up"
       ELSE IF deltaX > SWIPE_FRAME_THRESHOLD THEN "left"
       ELSE IF deltaX < -SWIPE_FRAME_THRESHOLD THEN "right"
       ELSE NULL

\* the thresholds compared with <= and >=
getSwipeDirection_inclusive(currentCenter, previousCenter) ==
    LET deltaX == currentCenter.x - previousCenter.x
        deltaY == currentCenter.y - previousCenter.y
    IN IF deltaY <= -SWIPE_FRAME_THRESHOLD THEN "up"
       ELSE IF deltaX >= SWIPE_FRAME_THRESHOLD THEN "left"
       ELSE IF deltaX <= -SWIPE_FRAME_THRESHOLD THEN "right"
       ELSE NULL

getSwipeDirection(currentCenter, previousCenter) ==
    LET deltaX == currentCenter.x - previousCenter.x
        deltaY == currentCenter.y - previousCenter.y
    IN IF deltaY < -SWIPE_FRAME_THRESHOLD THEN "up"
       ELSE IF deltaX > SWIPE_FRAME_THRESHOLD THEN "left"
       ELSE IF deltaX < -SWIPE_FRAME_THRESHOLD THEN "right"
       ELSE NULL

\* the previous frame's length not looked at
FrameSwipe_anyPrevious(l, p) ==
    IF ~p.null
    THEN LET swipeDirection ==
                 getSwipeDirection(getPalmCenter(l).value, getPalmCenter(p).value)
         IN IF swipeDirection = "up" THEN Ok("swipe-up")
            ELSE IF swipeDirection = "left" THEN Ok("swipe-left")
            ELSE IF swipeDirection = "right" THEN Ok("swipe-right")
            ELSE Ok("none")
    ELSE Ok("none")

\* only the upward direction mapped to a gesture
FrameSwipe_upOnly(l, p) ==
    IF ~p.null /\ Len(p.pts) >= HandPoints
    THEN IF getSwipeDirection(getPalmCenter(l).value, getPalmCenter(p).value) = "up"
         THEN Ok("swipe-up")
         ELSE Ok("none")
    ELSE Ok("none")

\* lines 236-249 of detectGesture: the swipe of the frame pair, "none" without one
FrameSwipe(l, p) ==
    IF ~p.null /\ Len(p.pts) >= HandPoints
    THEN LET currentCenter == getPalmCenter(l)
             previousCenter == getPalmCenter(p)
         IN IF currentCenter.threw \/ previousCenter.threw THEN TypeError
            ELSE LET swipeDirection ==
                         getSwipeDirection(currentCenter.value, previousCenter.value)
                 IN IF swipeDirection = "up" THEN Ok("swipe-up")
                    ELSE IF swipeDirection = "left" THEN Ok("swipe-left")
                    ELSE IF swipeDirection = "right" THEN Ok("swipe-right")
                    ELSE Ok("none")
    ELSE Ok("none")

\* the swipe of the frame pair looked at before the fist
detectGesture_swipeFirst(l, p) ==
    IF l.null \/ Len(l.pts) < HandPoints THEN Ok("none")
    ELSE LET swipe == FrameSwipe(l, p)
             fist == isFist(l)
         IN IF swipe.threw \/ fist.threw THEN TypeError
            ELSE IF swipe.value # "none" THEN swipe
            ELSE IF fist.value THEN Ok("fist")
            ELSE Ok("none")

detectGesture(l, p) ==
    IF l.null \/ Len(l.pts) < HandPoints THEN Ok("none")
    ELSE LET fist == isFist(l)
         IN IF fist.threw THEN TypeError
            ELSE IF fist.value THEN Ok("fist")
            ELSE FrameSwipe(l, p)

----------------------------------------------------------------------------
(* SwipeTracker: the MotionTracker *)

maxFrames == 10

Abs(v) == IF v < 0 THEN -v ELSE v

\* lines 176-178: the dominant direction of one delta
CurrentDir(deltaX, deltaY) ==
    IF Abs(deltaY) > Abs(deltaX) /\ deltaY < 0 THEN "up"
    ELSE IF deltaX > 0 THEN "left"
    ELSE IF deltaX < 0 THEN "right"
    ELSE NULL

\* a change of direction never noticed
Reversal_never(last, currentDir) == FALSE

\* line 180: the direction changed
Reversal(last, currentDir) ==
    last # NULL /\ currentDir # NULL /\ currentDir # last

\* SwipeTracker.reset(): the fields afterwards
\* reset() leaving lastDirection as it was
trackerReset_keepsDirection ==
    [accumulatedX |-> 0, accumulatedY |-> 0, frameCount |-> 0,
     lastDirection |-> lastDirection]

trackerReset ==
    [accumulatedX |-> 0, accumulatedY |-> 0, frameCount |-> 0, lastDirection |-> NULL]

\* lines 180-188: the fields after the delta is added
Integrate(tr, deltaX, deltaY) ==
    LET currentDir == CurrentDir(deltaX, deltaY)
        base == IF Reversal(tr.lastDirection, currentDir) THEN trackerReset ELSE tr
    IN [accumulatedX |-> base.accumulatedX + deltaX,
        accumulatedY |-> base.accumulatedY + deltaY,
        frameCount |-> base.frameCount + 1,
        lastDirection |-> currentDir]

\* the sums kept after an upward swipe is returned
Decide_upKeepsSums(tr) ==
    IF tr.accumulatedY < -SWIPE_THRESHOLD
    THEN [ret |-> "up", tracker |-> tr]
    ELSE IF Abs(tr.accumulatedX) > SWIPE_THRESHOLD
    THEN [ret |-> IF tr.accumulatedX > 0 THEN "left" ELSE "right",
          tracker |-> trackerReset]
    ELSE IF tr.frameCount >= maxFrames
    THEN [ret |-> NULL, tracker |-> trackerReset]
    ELSE [ret |-> NULL, tracker |-> tr]

\* the horizontal sum looked at before the vertical one
Decide_horizontalFirst(tr) ==
    IF Abs(tr.accumulatedX) > SWIPE_THRESHOLD
    THEN [ret |-> IF tr.accumulatedX > 0 THEN "left" ELSE "right",
          tracker |-> trackerReset]
    ELSE IF tr.accumulatedY < -SWIPE_THRESHOLD
    THEN [ret |-> "up", tracker |-> trackerReset]
    ELSE IF tr.frameCount >= maxFrames
    THEN [ret |-> NULL, tracker |-> trackerReset]
    ELSE [ret |-> NULL, tracker |-> tr]

\* the stale attempt given up one frame early
Decide_staleEarly(tr) ==
    IF tr.accumulatedY < -SWIPE_THRESHOLD
    THEN [ret |-> "up", tracker |-> trackerReset]
    ELSE IF Abs(tr.accumulatedX) > SWIPE_THRESHOLD
    THEN [ret |-> IF tr.accumulatedX > 0 THEN "left" ELSE "right",
          tracker |-> trackerReset]
    ELSE IF tr.frameCount >= maxFrames - 1
    THEN [ret |-> NULL, tracker |-> trackerReset]
    ELSE [ret |-> NULL, tracker |-> tr]

\* lines 190-208: the value returned and the fields left, once the delta is added
\* the frame count let past maxFrames before the reset
Decide_staleLate(tr) ==
    IF tr.accumulatedY < -SWIPE_THRESHOLD
    THEN [ret |-> "up", tracker |-> trackerReset]
    ELSE IF Abs(tr.accumulatedX) > SWIPE_THRESHOLD
    THEN [ret |-> IF tr.accumulatedX > 0 THEN "left" ELSE "right",
          tracker |-> trackerReset]
    ELSE IF tr.frameCount > maxFrames
    THEN [ret |-> NULL, tracker |-> trackerReset]
    ELSE [ret |-> NULL, tracker |-> tr]

Decide(tr) ==
    IF tr.accumulatedY < -SWIPE_THRESHOLD
    THEN [ret |-> "up", tracker |-> trackerReset]
    ELSE IF Abs(tr.accumulatedX) > SWIPE_THRESHOLD
    THEN [ret |-> IF tr.accumulatedX > 0 THEN "left" ELSE "right",
          tracker |-> trackerReset]
    ELSE IF tr.frameCount >= maxFrames
    THEN [ret |-> NULL, tracker |-> trackerReset]
    ELSE [ret |-> NULL, tracker |-> tr]

\* track(currentCenter, previousCenter) on a tracker holding tr
track(tr, currentCenter, previousCenter) ==
    LET deltaX == currentCenter.x - previousCenter.x
        deltaY == currentCenter.y - previousCenter.y
    IN Decide(Integrate(tr, deltaX, deltaY))

Tracker ==
    [accumulatedX |-> accumulatedX, accumulatedY |-> accumulatedY,
     frameCount |-> frameCount, lastDirection |-> lastDirection]

SetTracker(tr) ==
    /\ accumulatedX' = tr.accumulatedX
    /\ accumulatedY' = tr.accumulatedY
    /\ frameCount' = tr.frameCount
    /\ lastDirection' = tr.lastDirection

IdleTracker ==
    /\ accumulatedX = 0
    /\ accumulatedY = 0
    /\ frameCount = 0
    /\ lastDirection = NULL
    /\ tracked = [op |-> "new", dx |-> 0, dy |-> 0, ret |-> NULL,
                  reversed |-> FALSE, quiet |-> 0]

\* the deltas fed to the tracker on its own: still, drifting, moving a third
\* of SWIPE_THRESHOLD a frame, and crossing it in one frame
TrackDX == {-20, -5, 0, 5, 20, 65}
TrackDY == {-65, -20, 0, 5}

\* the track calls in a row, the one that returns out included, that found
\* no direction change and returned null since the tracker was last created,
\* reset() or made to return a direction; -1 once a direction changed
Quiet(count, reversed, out) ==
    IF out # NULL THEN 0
    ELSE IF reversed \/ count = -1 THEN -1
    ELSE IF count + 1 >= maxFrames THEN 0
    ELSE count + 1

\* the record of the call track(currentCenter, previousCenter) returning out
TrackCall(currentCenter, previousCenter, out) ==
    LET dx == currentCenter.x - previousCenter.x
        dy == currentCenter.y - previousCenter.y
        reversed == Reversal(lastDirection, CurrentDir(dx, dy))
    IN [op |-> "track", dx |-> dx, dy |-> dy, ret |-> out,
        reversed |-> reversed, quiet |-> Quiet(tracked.quiet, reversed, out)]

ResetCall ==
    [op |-> "reset", dx |-> 0, dy |-> 0, ret |-> NULL, reversed |-> FALSE, quiet |-> 0]

Track(dx, dy) ==
    LET currentCenter == [x |-> 500 + dx, y |-> 500 + dy]
        previousCenter == [x |-> 500, y |-> 500]
        r == track(Tracker, currentCenter, previousCenter)
    IN /\ SetTracker(r.tracker)
       /\ tracked' = TrackCall(currentCenter, previousCenter, r.ret)

TrackerReset ==
    /\ SetTracker(trackerReset)
    /\ tracked' = ResetCall

----------------------------------------------------------------------------
(* The frames fed to the classifiers *)

Fingers == <<[tip |-> INDEX_TIP, mcp |-> INDEX_MCP, dx |-> -150],
             [tip |-> MIDDLE_TIP, mcp |-> MIDDLE_MCP, dx |-> -50],
             [tip |-> RING_TIP, mcp |-> RING_MCP, dx |-> 50],
             [tip |-> PINKY_TIP, mcp |-> PINKY_MCP, dx |-> 150]>>

\* Point idx of a hand whose palm centre is (px, py) and whose finger f has
\* its tip dists[f] above its knuckle; the other joints lie where the tests'
\* createLandmarks puts them.
Joint(idx, px, py, dists) ==
    IF idx = WRIST THEN [x |-> px, y |-> py + 160]
    ELSE IF \E f \in 1..4 : Fingers[f].mcp = idx
    THEN LET f == CHOOSE f \in 1..4 : Fingers[f].mcp = idx
         IN [x |-> px + Fingers[f].dx, y |-> py - 40]
    ELSE IF \E f \in 1..4 : Fingers[f].tip = idx
    THEN LET f == CHOOSE f \in 1..4 : Fingers[f].tip = idx
         IN [x |-> px + Fingers[f].dx, y |-> py - 40 - dists[f]]
    ELSE [x |-> 500, y |-> 500]

Hand(n, px, py, dists) ==
    [null |-> FALSE, pts |-> [i \in 1..n |-> Joint(i - 1, px, py, dists)]]

\* array lengths: empty, one point short, a full hand, one point more
Lens == {0, HandPoints - 1, HandPoints, HandPoints + 1}

\* tip-above-knuckle distances on either side of FIST_THRESHOLD
FingerDists == {FIST_THRESHOLD - 10, FIST_THRESHOLD}

OpenDists == [f \in 1..4 |-> 300]

Shifts == {5 * k : k \in -MaxShift..MaxShift}

CurFrames ==
    {NullFrame} \cup {Hand(n, 500, 500, d) : n \in Lens, d \in [1..4 -> FingerDists]}

PrevFrames ==
    {NullFrame} \cup {Hand(n, 500 + sx, 500 + sy, OpenDists) :
                         n \in Lens, sx \in Shifts, sy \in Shifts}

\* tip-above-knuckle distances at OPEN_THRESHOLD, between the two thresholds
\* and at FIST_THRESHOLD
ShapeDists == {OPEN_THRESHOLD, OPEN_THRESHOLD + 10, FIST_THRESHOLD}

\* the joints of the thumb, the middle joints of the fingers (PIP, DIP), the
\* finger tips
ThumbJoints == {1, 2, 3, 4}
MiddleJoints == {6, 7, 10, 11, 14, 15, 18, 19}
TipJoints == {INDEX_TIP, MIDDLE_TIP, RING_TIP, PINKY_TIP}

\* frame l with the points idxs moved by (bx, by)
Moved(l, idxs, bx, by) ==
    [l EXCEPT !.pts = [i \in DOMAIN l.pts |->
                          IF (i - 1) \in idxs
                          THEN [x |-> l.pts[i].x + bx, y |-> l.pts[i].y + by]
                          ELSE l.pts[i]]]

\* which joints of a hand are moved, and by how much: none, the thumb, the
\* middle joints, the tips sideways, the wrist, one knuckle
Moves ==
    {[idxs |-> {}, bx |-> 0, by |-> 0],
     [idxs |-> ThumbJoints, bx |-> 35, by |-> -45],
     [idxs |-> MiddleJoints, bx |-> -20, by |-> 30],
     [idxs |-> TipJoints, bx |-> 35, by |-> 0],
     [idxs |-> {WRIST}, bx |-> 50, by |-> 25],
     [idxs |-> {INDEX_MCP}, bx |-> 25, by |-> -50]}

\* full hands of every finger posture, one group of joints moved
ShapeFrames ==
    {Moved(Hand(HandPoints, 500, 500, d), mv.idxs, mv.bx, mv.by) :
        d \in [1..4 -> ShapeDists], mv \in Moves}

InitShape ==
    /\ landmarks \in ShapeFrames
    /\ previousLandmarks = NullFrame
    /\ ret = [fn |-> "none", out |-> Ok(NULL)]

IdleGate ==
    /\ lastGesture = "none"
    /\ gestureStartTime = 0
    /\ now = 0
    /\ hist = <<>>
    /\ runEmits = 0

IdleFrames ==
    /\ landmarks = NullFrame
    /\ previousLandmarks = NullFrame
    /\ ret = [fn |-> "none", out |-> Ok(NULL)]

InitDetect ==
    /\ landmarks \in CurFrames
    /\ previousLandmarks \in PrevFrames
    /\ ret = [fn |-> "none", out |-> Ok(NULL)]

CallIsFist ==
    /\ ret' = [fn |-> "isFist", out |-> isFist(landmarks)]
    /\ UNCHANGED <<landmarks, previousLandmarks>>

CallIsPalmOpen ==
    /\ ret' = [fn |-> "isPalmOpen", out |-> isPalmOpen(landmarks)]
    /\ UNCHANGED <<landmarks, previousLandmarks>>

CallGetPalmCenter ==
    /\ ret' = [fn |-> "getPalmCenter", out |-> getPalmCenter(landmarks)]
    /\ UNCHANGED <<landmarks, previousLandmarks>>

CallDetectGesture ==
    /\ ret' = [fn |-> "detectGesture", out |-> detectGesture(landmarks, previousLandmarks)]
    /\ UNCHANGED <<landmarks, previousLandmarks>>

\* getSwipeDirection on the palm centres of the two frames, as detectGesture
\* (lines 238-240) and the tests call it
CallGetSwipeDirection ==
    /\ ~getPalmCenter(landmarks).threw /\ ~getPalmCenter(previousLandmarks).threw
    /\ ret' = [fn |-> "getSwipeDirection",
               out |-> Ok(getSwipeDirection(getPalmCenter(landmarks).value,
                                            getPalmCenter(previousLandmarks).value))]
    /\ UNCHANGED <<landmarks, previousLandmarks>>

----------------------------------------------------------------------------
(* GestureCardSelector: the frame loop, processFrame *)

FistDists == [f \in 1..4 |-> 0]

\* where the palm of an open hand of the loop lies: off its rest to the
\* right by steps of SWIPE_FRAME_THRESHOLD
LoopPalms == {[x |-> 500 + 15 * k, y |-> 500] : k \in 0..MaxLoopSteps}

\* results.landmarks[0] of the frames with a hand: 21 points each, an open
\* hand at each palm position and a fist at rest
LoopFrames ==
    {Hand(HandPoints, c.x, c.y, OpenDists) : c \in LoopPalms}
       \cup {Hand(HandPoints, 500, 500, FistDists)}

\* Date.now() at a frame: the reading of the frame before, or one a whole
\* cooldown later, over a session of two cooldowns
LoopTimes == {t \in {now, now + cooldownMs} : t <= 2 * cooldownMs}

swipeGesture(swipeResult) ==
    IF swipeResult = "up" THEN "swipe-up"
    ELSE IF swipeResult = "left" THEN "swipe-left"
    ELSE IF swipeResult = "right" THEN "swipe-right"
    ELSE "none"

\* the tracker asked on every frame that follows one with a hand
TrackerAsked_anyPrevious(gesture, previous) == ~previous.null

\* line 154: the tracker is asked
TrackerAsked(gesture, previous) == gesture = "none" /\ ~previous.null

\* SAMPLE_CARDS and the default of maxSelections; the id of a card is its
\* index in the list
NumCards == 10
maxSelections == 3
cards == [i \in 1..NumCards |-> i - 1]

\* null as a hover index
NoIndex == -1

Min(a, b) == IF a < b THEN a ELSE b
Max(a, b) == IF a > b THEN a ELSE b

\* the card under the palm, the x axis not mirrored
cardIndexAt_unmirrored(palmCenter) ==
    LET padding == 100
        effectiveWidth == 1000 - 2 * padding
    IN (Max(0, Min(effectiveWidth, palmCenter.x - padding)) * Len(cards))
          \div effectiveWidth

\* lines 134-143: Math.floor(adjustedX * cards.length), adjustedX the
\* mirrored palm x less the padding, over the effective width, held in 0..1
cardIndexAt(palmCenter) ==
    LET mirroredX == 1000 - palmCenter.x
        padding == 100
        effectiveWidth == 1000 - 2 * padding
    IN (Max(0, Min(effectiveWidth, mirroredX - padding)) * Len(cards))
          \div effectiveWidth

\* prev.includes(cardId)
Includes(prev, cardId) == \E i \in 1..Len(prev) : prev[i] = cardId

\* prev.filter((id) => id !== cardId)
Without(prev, cardId) == SelectSeq(prev, LAMBDA id : id # cardId)

\* a card added however many are selected
handleCardSelect_noLimit(prev, cardId) ==
    IF Includes(prev, cardId)
    THEN [selectedCardIds |-> Without(prev, cardId), complete |-> FALSE]
    ELSE [selectedCardIds |-> Append(prev, cardId),
          complete |-> Len(prev) + 1 = maxSelections]

\* lines 62-75: the selection after handleCardSelect(cardId), and whether
\* setIsComplete(true) was called
handleCardSelect(prev, cardId) ==
    IF Includes(prev, cardId)
    THEN [selectedCardIds |-> Without(prev, cardId), complete |-> FALSE]
    ELSE IF Len(prev) < maxSelections
    THEN [selectedCardIds |-> Append(prev, cardId),
          complete |-> Len(prev) + 1 = maxSelections]
    ELSE [selectedCardIds |-> prev, complete |-> FALSE]

\* lines 176-181: the events that select, and the index they may select at
Selects(validGesture) == validGesture = "swipe-up" \/ validGesture = "fist"
Selectable(idx) == idx # NoIndex /\ idx >= 0 /\ idx < Len(cards)

NoFrame(op) ==
    [op |-> op, hand |-> FALSE, first |-> previousLandmarksRef.null,
     gesture |-> "none", asked |-> FALSE, detectedGesture |-> "none",
     validGesture |-> NULL, cardId |-> NoIndex]

IdleLoop ==
    /\ previousLandmarksRef = NullFrame
    /\ frame = NoFrame("attach")
    /\ hoveredIndex = NoIndex
    /\ hoveredIndexRef = NoIndex
    /\ selectedCardIds = <<>>
    /\ isComplete = FALSE

\* lines 128-184: a video frame in which a hand was found, Date.now() reading t
HandFrame(l, t) ==
    /\ t >= now
    /\ \E gesture \in {detectGesture(l, previousLandmarksRef).value} :
       \E currentCenter \in {getPalmCenter(l).value} :
       \E previousCenter \in {getPalmCenter(previousLandmarksRef).value} :
       \E asked \in {TrackerAsked(gesture, previousLandmarksRef)} :
       \E swipe \in {IF asked THEN track(Tracker, currentCenter, previousCenter)
                              ELSE [ret |-> NULL, tracker |-> Tracker]} :
       \E detectedGesture \in {IF swipe.ret # NULL THEN swipeGesture(swipe.ret)
                                                   ELSE gesture} :
       \E r \in {processGesture(detectedGesture, lastGesture, gestureStartTime, t)} :
       \E cardIndex \in {cardIndexAt(currentCenter)} :
       \E idx \in {hoveredIndexRef} :
          /\ hoveredIndex' = IF cardIndex >= 0 /\ cardIndex < Len(cards)
                                THEN cardIndex ELSE hoveredIndex
          /\ IF asked
             THEN /\ SetTracker(swipe.tracker)
                  /\ tracked' = TrackCall(currentCenter, previousCenter, swipe.ret)
             ELSE UNCHANGED trackerVars
          /\ previousLandmarksRef' = l
          /\ lastGesture' = r.lastGesture
          /\ gestureStartTime' = r.gestureStartTime
          /\ IF Selects(r.ret) /\ Selectable(idx)
             THEN \E sel \in {handleCardSelect(selectedCardIds, cards[idx + 1])} :
                     /\ selectedCardIds' = sel.selectedCardIds
                     /\ isComplete' = (isComplete \/ sel.complete)
             ELSE UNCHANGED <<selectedCardIds, isComplete>>
          /\ frame' = [op |-> "hand", hand |-> TRUE,
                       first |-> previousLandmarksRef.null,
                       gesture |-> gesture, asked |-> asked,
                       detectedGesture |-> detectedGesture, validGesture |-> r.ret,
                       cardId |-> IF Selects(r.ret) /\ Selectable(idx)
                                     THEN cards[idx + 1] ELSE NoIndex]
    /\ now' = t
    /\ UNCHANGED <<hist, runEmits, hoveredIndexRef>>

\* the no-hand branch resetting the gesture manager as well
NoHandFrame_resetsGate ==
    /\ previousLandmarksRef' = NullFrame
    /\ SetTracker(trackerReset)
    /\ tracked' = ResetCall
    /\ hoveredIndex' = NoIndex
    /\ frame' = NoFrame("nohand")
    /\ lastGesture' = reset.lastGesture
    /\ gestureStartTime' = reset.gestureStartTime
    /\ UNCHANGED <<now, hist, runEmits>>
    /\ UNCHANGED <<hoveredIndexRef, selectedCardIds, isComplete>>

\* lines 185-190: a video frame without a hand
NoHandFrame ==
    /\ previousLandmarksRef' = NullFrame
    /\ SetTracker(trackerReset)
    /\ tracked' = ResetCall
    /\ hoveredIndex' = NoIndex
    /\ frame' = NoFrame("nohand")
    /\ UNCHANGED gateVars
    /\ UNCHANGED <<hoveredIndexRef, selectedCardIds, isComplete>>

\* lines 58-60: after a render that changed hoveredIndex the effect copies
\* it to hoveredIndexRef
Render ==
    /\ hoveredIndexRef # hoveredIndex
    /\ hoveredIndexRef' = hoveredIndex
    /\ frame' = [frame EXCEPT !.op = "render"]
    /\ UNCHANGED <<gateVars, trackerVars, previousLandmarksRef>>
    /\ UNCHANGED <<hoveredIndex, selectedCardIds, isComplete>>

\* lines 78-219: the effect cleaned up and run again (isCameraReady, cards
\* or handleCardSelect changed): a new HandLandmarker and a new frame loop
\* over the refs of the component
Reattach ==
    /\ frame' = NoFrame("attach")
    /\ UNCHANGED <<gateVars, trackerVars, previousLandmarksRef>>
    /\ UNCHANGED <<hoveredIndex, hoveredIndexRef, selectedCardIds, isComplete>>

\* lines 298-303: a click on a card of the fan, CardFan's onCardSelect
CardClick(cardId) ==
    /\ \E sel \in {handleCardSelect(selectedCardIds, cardId)} :
          /\ selectedCardIds' = sel.selectedCardIds
          /\ isComplete' = (isComplete \/ sel.complete)
    /\ frame' = [frame EXCEPT !.op = "click", !.cardId = cardId]
    /\ UNCHANGED <<gateVars, trackerVars, previousLandmarksRef>>
    /\ UNCHANGED <<hoveredIndex, hoveredIndexRef>>

\* lines 226-231: a click on the reset button, shown while isComplete
\* (lines 318-327)
handleReset ==
    /\ isComplete
    /\ selectedCardIds' = <<>>
    /\ isComplete' = FALSE
    /\ hoveredIndex' = NoIndex
    /\ lastGesture' = reset.lastGesture
    /\ gestureStartTime' = reset.gestureStartTime
    /\ frame' = [frame EXCEPT !.op = "reset", !.cardId = NoIndex]
    /\ UNCHANGED <<now, hist, runEmits>>
    /\ UNCHANGED <<trackerVars, previousLandmarksRef, hoveredIndexRef>>

----------------------------------------------------------------------------
(* api: analyzeTarot and generateWithRetry.  A string is the sequence of  *)
(* its characters; a value that may be null or undefined is a record with *)
(* a null flag.                                                            *)

MODELS == <<"gemini-2.0-flash", "gemini-1.5-flash">>
maxRetries == 3

Err(name) == [threw |-> TRUE, value |-> name]

IsSpace(c) == c \in {" ", "\t", "\n"}

RECURSIVE trimStart(_)
trimStart(str) ==
    IF Len(str) > 0 /\ IsSpace(Head(str)) THEN trimStart(Tail(str)) ELSE str

RECURSIVE trimEnd(_)
trimEnd(str) ==
    IF Len(str) > 0 /\ IsSpace(str[Len(str)])
    THEN trimEnd(SubSeq(str, 1, Len(str) - 1)) ELSE str

\* String.prototype.trim
trim(str) == trimEnd(trimStart(str))

\* the question checked before the cards
validate_questionFirst(userQuestion, selectedCards) ==
    IF userQuestion.null \/ Len(userQuestion.chars) = 0
          \/ Len(trim(userQuestion.chars)) = 0
    THEN "EnterQuestion"
    ELSE IF selectedCards.null \/ Len(selectedCards.items) = 0
    THEN "SelectCard"
    ELSE NULL

\* lines 301-307: the error analyzeTarot throws before its try block, null
\* when the input passes
validate(userQuestion, selectedCards) ==
    IF selectedCards.null \/ Len(selectedCards.items) = 0
    THEN "SelectCard"
    ELSE IF userQuestion.null \/ Len(userQuestion.chars) = 0
               \/ Len(trim(userQuestion.chars)) = 0
    THEN "EnterQuestion"
    ELSE NULL

\* 'your_api_key_here', the key of the sample environment, for short
Placeholder == <<"y", "o", "u", "r">>

\* lines 173-185: the client, or the error for a key that is not set
getGeminiClient(apiKey) ==
    IF apiKey.null \/ Len(apiKey.chars) = 0 THEN Err("KeyUndefined")
    ELSE IF apiKey.chars = Placeholder \/ Len(trim(apiKey.chars)) = 0
    THEN Err("KeyPlaceholder")
    ELSE Ok("client")

\* lines 201-221: the text of a response parsed
parseResponse(text) ==
    IF text = "json" THEN Ok("analysis") ELSE Err("ParseFailed")

\* lines 325-350: what the catch block of analyzeTarot throws for an error
\* caught
Rethrown(err) ==
    IF err = "value" THEN "Unknown"
    ELSE IF err \in {"KeyUndefined", "KeyPlaceholder", "AllModelsUnavailable"} THEN err
    ELSE IF err = "API_KEY_INVALID" THEN "KeyInvalid"
    ELSE IF err = "ParseFailed" THEN err
    ELSE "ServiceUnavailable"

\* what a generateContent call ends in: a response whose text parses or
\* does not, an error generateWithRetry retries, an invalid key reported, any
\* other Error, a thrown value that is no Error
Outcomes == {"json", "garbage", "retryable", "API_KEY_INVALID", "fatal", "value"}

\* every failure taken for one to retry
isRetryable_anyFailure(outcome) == outcome \notin {"json", "garbage"}

\* line 264-266: the error is retried
isRetryable(outcome) == outcome = "retryable"

\* the last attempt on a model followed by one more
retriesLeft_inclusive(attempt) == attempt < maxRetries

\* line 268: the model has attempts left after this one
retriesLeft(attempt) == attempt < maxRetries - 1

\* line 269
waitMs(attempt) == Min(2000 * 2^attempt, 10000)

\* log is the generateContent calls made so far, in order: the model asked,
\* how the call ended and the delay awaited after it, 0 for none
NoCall ==
    [pc |-> "idle", userQuestion |-> [null |-> TRUE, chars |-> <<>>],
     selectedCards |-> [null |-> TRUE, items |-> <<>>],
     model |-> 1, attempt |-> 0, requests |-> 0, waiting |-> 0,
     result |-> Ok(NULL), log |-> <<>>]

IdleApi == analysis = NoCall

Settled(c, result) == [c EXCEPT !.pc = "done", !.result = result]

\* lines 297-323: analyzeTarot called; it runs up to the first await
AnalyzeTarot(userQuestion, selectedCards, apiKey) ==
    /\ analysis.pc = "idle"
    /\ LET c == [analysis EXCEPT !.userQuestion = userQuestion,
                              !.selectedCards = selectedCards]
           invalid == validate(userQuestion, selectedCards)
           genAI == getGeminiClient(apiKey)
       IN analysis' = IF invalid # NULL THEN Settled(c, Err(invalid))
                  ELSE IF genAI.threw THEN Settled(c, Err(Rethrown(genAI.value)))
                  ELSE [c EXCEPT !.pc = "generating"]

\* lines 248-283: model.generateContent settles with outcome
GenerateContent(outcome) ==
    /\ analysis.pc = "generating"
    /\ LET retried == /\ outcome \notin {"json", "garbage"}
                      /\ isRetryable(outcome) /\ retriesLeft(analysis.attempt)
           c == [analysis EXCEPT
                    !.requests = @ + 1,
                    !.log = Append(@, [model |-> MODELS[analysis.model],
                                       outcome |-> outcome,
                                       wait |-> IF retried THEN waitMs(analysis.attempt)
                                                           ELSE 0])]
       IN analysis' =
            IF outcome \in {"json", "garbage"}
            THEN LET parsed == parseResponse(outcome)
                 IN Settled(c, IF parsed.threw THEN Err(Rethrown(parsed.value))
                               ELSE parsed)
            ELSE IF isRetryable(outcome) /\ retriesLeft(analysis.attempt)
            THEN [c EXCEPT !.pc = "waiting", !.waiting = waitMs(analysis.attempt)]
            ELSE IF isRetryable(outcome)
            THEN IF analysis.model < Len(MODELS)
                 THEN [c EXCEPT !.model = @ + 1, !.attempt = 0]
                 ELSE Settled(c, Err(Rethrown("AllModelsUnavailable")))
            ELSE Settled(c, Err(Rethrown(outcome)))

\* lines 271-272: the delay is over, the next attempt on the same model
Delay ==
    /\ analysis.pc = "waiting"
    /\ analysis' = [analysis EXCEPT !.pc = "generating", !.attempt = @ + 1,
                                    !.waiting = 0]

\* the arguments of analyzeTarot and the key of the environment
Questions ==
    {[null |-> TRUE, chars |-> <<>>]}
       \cup {[null |-> FALSE, chars |-> q] :
                q \in {<<>>, <<" ">>, <<" ", "\n">>, <<"q">>, <<" ", "q", " ">>}}
CardLists ==
    {[null |-> TRUE, items |-> <<>>]}
       \cup {[null |-> FALSE, items |-> cs] :
                cs \in {<<>>, <<[name |-> "fool", isReversed |-> FALSE]>>,
                        <<[name |-> "fool", isReversed |-> FALSE],
                          [name |-> "magician", isReversed |-> TRUE]>>}}
ApiKeys ==
    {[null |-> TRUE, chars |-> <<>>]}
       \cup {[null |-> FALSE, chars |-> k] :
                k \in {<<>>, Placeholder, <<" ">>, <<"k">>}}

----------------------------------------------------------------------------
(* useCamera.  calls holds the startCamera calls in order, each by what  *)
(* has become of its getUserMedia: "unsupported" (never asked),           *)
(* "pending", "failed", "live" (a stream with its tracks running),        *)
(* "stopped" (a stream whose tracks were stopped).  streamRef and         *)
(* srcObject name a stream by the position of its call, NoStream is null. *)

NoStream == 0

\* the hook's first render: nothing acquired, the effect not yet run
NoCamera ==
    [mounted |-> FALSE, unmounted |-> FALSE, streamRef |-> NoStream,
     srcObject |-> NoStream, isReady |-> FALSE, error |-> NULL, calls |-> <<>>]

IdleCamera == camera = NoCamera

\* lines 41-59: startCamera up to its await, on the hook holding c
startCamera(c, supported) ==
    [c EXCEPT !.error = IF supported THEN NULL ELSE "NotSupportedError",
              !.isReady = FALSE,
              !.calls = Append(@, IF supported THEN "pending" ELSE "unsupported")]

\* lines 95-101: stopCamera on the hook holding c
stopCamera(c) ==
    IF c.streamRef # NoStream
    THEN [c EXCEPT !.calls[c.streamRef] = "stopped", !.streamRef = NoStream,
                   !.isReady = FALSE]
    ELSE [c EXCEPT !.isReady = FALSE]

\* lines 108-109: the effect of the mounted hook starts the camera
Mount(supported) ==
    /\ ~camera.mounted /\ ~camera.unmounted
    /\ camera' = startCamera([camera EXCEPT !.mounted = TRUE], supported)

\* lines 61-69: getUserMedia of call i resolves with a stream; the video
\* element is there while the component is mounted
Resolve(i) ==
    /\ i \in 1..Len(camera.calls) /\ camera.calls[i] = "pending"
    /\ camera' = [camera EXCEPT !.calls[i] = "live", !.streamRef = i,
                                !.srcObject = IF camera.mounted THEN i ELSE @]

\* lines 70-92: getUserMedia of call i rejects
Reject(i, name) ==
    /\ i \in 1..Len(camera.calls) /\ camera.calls[i] = "pending"
    /\ camera' = [camera EXCEPT !.calls[i] = "failed", !.error = name]

\* lines 65-68: the video element has loaded the metadata of its stream
LoadedMetadata ==
    /\ camera.mounted /\ camera.srcObject # NoStream
    /\ camera.calls[camera.srcObject] = "live"
    /\ ~camera.isReady
    /\ camera' = [camera EXCEPT !.isReady = TRUE]

\* lines 103-106: retry(), from the error screen of the mounted component
Retry(supported) ==
    /\ camera.mounted
    /\ Len(camera.calls) < MaxCameraCalls
    /\ camera' = startCamera(stopCamera(camera), supported)

\* line 110: the cleanup of the effect as the component unmounts
Unmount ==
    /\ camera.mounted
    /\ camera' = [stopCamera(camera) EXCEPT !.mounted = FALSE, !.unmounted = TRUE]

CameraErrors == {"NotAllowedError", "NotFoundError", "UnknownError"}

----------------------------------------------------------------------------
(* Specifications *)

\* the camera hook from its mount to after its unmount, the getUserMedia
\* calls settling in every order
NextCamera ==
    \/ \E supported \in BOOLEAN :
          Mount(supported)
          /\ UNCHANGED <<gateVars, frameVars, trackerVars, loopVars, apiVars, spacingVars>>
    \/ \E i \in 1..MaxCameraCalls :
          Resolve(i)
          /\ UNCHANGED <<gateVars, frameVars, trackerVars, loopVars, apiVars, spacingVars>>
    \/ \E i \in 1..MaxCameraCalls, name \in CameraErrors :
          Reject(i, name)
          /\ UNCHANGED <<gateVars, frameVars, trackerVars, loopVars, apiVars, spacingVars>>
    \/ LoadedMetadata
          /\ UNCHANGED <<gateVars, frameVars, trackerVars, loopVars, apiVars, spacingVars>>
    \/ \E supported \in BOOLEAN :
          Retry(supported)
          /\ UNCHANGED <<gateVars, frameVars, trackerVars, loopVars, apiVars, spacingVars>>
    \/ Unmount
          /\ UNCHANGED <<gateVars, frameVars, trackerVars, loopVars, apiVars, spacingVars>>

InitCameraSpec ==
    IdleGate /\ IdleFrames /\ IdleTracker /\ IdleLoop /\ IdleApi /\ IdleSpacing /\ IdleCamera

SpecCamera == InitCameraSpec /\ [][NextCamera]_vars


\* the DebounceGate under every order of calls and clock readings
NextGate ==
    \/ \E gesture \in Gesture, t \in Times :
          ProcessGesture(gesture, t)
          /\ UNCHANGED <<frameVars, trackerVars, loopVars, apiVars, spacingVars, cameraVars>>
    \/ Reset /\ UNCHANGED <<frameVars, trackerVars, loopVars, apiVars, spacingVars, cameraVars>>

InitGateSpec == InitGate /\ IdleFrames /\ IdleTracker /\ IdleLoop /\ IdleApi
       /\ IdleSpacing /\ IdleCamera

SpecGate == InitGateSpec /\ [][NextGate]_vars

\* the same, the manager created once the clock is past the first cooldownMs
\* after the epoch
InitGateLate == InitGateSpec /\ now >= cooldownMs

SpecGateLate == InitGateLate /\ [][NextGate]_vars

\* the DebounceGate with the times of its events kept by the caller
NextSpacing ==
    \/ \E gesture \in Gesture, t \in Times :
          ObservedGesture(gesture, t)
          /\ UNCHANGED <<frameVars, trackerVars, loopVars, apiVars, cameraVars>>
    \/ ObservedReset /\ UNCHANGED <<frameVars, trackerVars, loopVars, apiVars, cameraVars>>

InitSpacingSpec == InitGateSpec

SpecSpacing == InitSpacingSpec /\ [][NextSpacing]_vars

\* the classifiers and detectGesture applied to every frame pair
NextDetect ==
    \/ CallIsFist /\ UNCHANGED <<gateVars, trackerVars, loopVars, apiVars, spacingVars, cameraVars>>
    \/ CallIsPalmOpen
       /\ UNCHANGED <<gateVars, trackerVars, loopVars, apiVars, spacingVars, cameraVars>>
    \/ CallGetPalmCenter
       /\ UNCHANGED <<gateVars, trackerVars, loopVars, apiVars, spacingVars, cameraVars>>
    \/ CallDetectGesture
       /\ UNCHANGED <<gateVars, trackerVars, loopVars, apiVars, spacingVars, cameraVars>>
    \/ CallGetSwipeDirection
       /\ UNCHANGED <<gateVars, trackerVars, loopVars, apiVars, spacingVars, cameraVars>>

InitDetectSpec == IdleGate /\ InitDetect /\ IdleTracker /\ IdleLoop /\ IdleApi
       /\ IdleSpacing /\ IdleCamera

SpecDetect == InitDetectSpec /\ [][NextDetect]_vars

\* the classifiers of a single frame applied to hands of every posture
NextShape ==
    \/ CallIsFist /\ UNCHANGED <<gateVars, trackerVars, loopVars, apiVars, spacingVars, cameraVars>>
    \/ CallIsPalmOpen
       /\ UNCHANGED <<gateVars, trackerVars, loopVars, apiVars, spacingVars, cameraVars>>
    \/ CallGetPalmCenter
       /\ UNCHANGED <<gateVars, trackerVars, loopVars, apiVars, spacingVars, cameraVars>>

InitShapeSpec == IdleGate /\ InitShape /\ IdleTracker /\ IdleLoop /\ IdleApi
       /\ IdleSpacing /\ IdleCamera

SpecShape == InitShapeSpec /\ [][NextShape]_vars

\* one call of analyzeTarot with every input and every outcome of the
\* requests it makes
NextApi ==
    \/ \E q \in Questions, cs \in CardLists, k \in ApiKeys :
          AnalyzeTarot(q, cs, k)
          /\ UNCHANGED <<gateVars, frameVars, trackerVars, loopVars, spacingVars, cameraVars>>
    \/ \E outcome \in Outcomes :
          GenerateContent(outcome)
          /\ UNCHANGED <<gateVars, frameVars, trackerVars, loopVars, spacingVars, cameraVars>>
    \/ Delay /\ UNCHANGED <<gateVars, frameVars, trackerVars, loopVars, spacingVars, cameraVars>>

InitApiSpec == IdleGate /\ IdleFrames /\ IdleTracker /\ IdleLoop /\ IdleApi
       /\ IdleSpacing /\ IdleCamera

SpecApi == InitApiSpec /\ [][NextApi]_vars

\* the same, every promise generateWithRetry awaits settling in the end: the
\* generateContent call (line 259) and the delay (line 271)
SpecApiFair ==
    /\ SpecApi
    /\ WF_vars(\E outcome \in Outcomes :
                  GenerateContent(outcome)
                  /\ UNCHANGED <<gateVars, frameVars, trackerVars, loopVars,
                                 spacingVars, cameraVars>>)
    /\ WF_vars(Delay /\ UNCHANGED <<gateVars, frameVars, trackerVars, loopVars,
                                    spacingVars, cameraVars>>)

\* the SwipeTracker under every order of track and reset calls
NextTracker ==
    \/ \E dx \in TrackDX, dy \in TrackDY :
          Track(dx, dy)
          /\ UNCHANGED <<gateVars, frameVars, loopVars, apiVars, spacingVars, cameraVars>>
    \/ TrackerReset /\ UNCHANGED <<gateVars, frameVars, loopVars, apiVars, spacingVars, cameraVars>>

InitTrackerSpec == IdleGate /\ IdleFrames /\ IdleTracker /\ IdleLoop /\ IdleApi
       /\ IdleSpacing /\ IdleCamera

SpecTracker == InitTrackerSpec /\ [][NextTracker]_vars

\* the frame loop of one tracking session: frames with and without a hand in
\* every order, the clock read at each gesture
NextLoop ==
    \/ \E l \in LoopFrames, t \in LoopTimes :
          HandFrame(l, t) /\ UNCHANGED <<frameVars, apiVars, spacingVars, cameraVars>>
    \/ NoHandFrame /\ UNCHANGED <<frameVars, apiVars, spacingVars, cameraVars>>

InitLoopSpec ==
    /\ lastGesture = "none" /\ gestureStartTime = 0 /\ now = cooldownMs
    /\ hist = <<>> /\ runEmits = 0
    /\ IdleFrames /\ IdleTracker /\ IdleLoop /\ IdleApi /\ IdleSpacing /\ IdleCamera

SpecLoop == InitLoopSpec /\ [][NextLoop]_vars

\* the frames of a session of the component: an open hand over one card, an
\* open hand over its neighbour, an open hand at the edge of the picture
\* beyond the last card, a fist
SessionFrames ==
    {Hand(HandPoints, 500, 500, OpenDists), Hand(HandPoints, 530, 500, OpenDists),
     Hand(HandPoints, 100, 500, OpenDists), Hand(HandPoints, 500, 500, FistDists)}

\* the component over its lifetime: the frame loop, the renders between its
\* frames and the effect run again
NextSession ==
    \/ \E l \in SessionFrames, t \in LoopTimes :
          HandFrame(l, t) /\ UNCHANGED <<frameVars, apiVars, spacingVars, cameraVars>>
    \/ NoHandFrame /\ UNCHANGED <<frameVars, apiVars, spacingVars, cameraVars>>
    \/ Render /\ UNCHANGED <<frameVars, apiVars, spacingVars, cameraVars>>
    \/ Reattach /\ UNCHANGED <<frameVars, apiVars, spacingVars, cameraVars>>

InitSessionSpec == InitLoopSpec

SpecSession == InitSessionSpec /\ [][NextSession]_vars

\* the frames of a selection by gestures: an open hand and a fist over one
\* card
SelectFrames ==
    {Hand(HandPoints, 500, 500, OpenDists), Hand(HandPoints, 500, 500, FistDists)}

\* the cards clicked: the one under that hand, two before it and one after
ClickCards == {cards[i] : i \in 4..7}

\* the selection of cards by gestures and by clicks, and its reset
NextSelect ==
    \/ \E l \in SelectFrames, t \in LoopTimes :
          HandFrame(l, t) /\ UNCHANGED <<frameVars, apiVars, spacingVars, cameraVars>>
    \/ Render /\ UNCHANGED <<frameVars, apiVars, spacingVars, cameraVars>>
    \/ \E cardId \in ClickCards :
          CardClick(cardId) /\ UNCHANGED <<frameVars, apiVars, spacingVars, cameraVars>>
    \/ handleReset /\ UNCHANGED <<frameVars, apiVars, spacingVars, cameraVars>>

InitSelectSpec == InitLoopSpec

SpecSelect == InitSelectSpec /\ [][NextSelect]_vars

----------------------------------------------------------------------------
(* Claims about the DebounceGate.  In a step, hist' ends with the call the *)
(* step makes and now' is the clock reading of that call; lastGesture and  *)
(* gestureStartTime are the fields before it, the primed ones after it.    *)

Latest == hist[Len(hist)]

\* the step is the call processGesture(g)
Fed(g) ==
    /\ hist' # <<>>
    /\ hist'[Len(hist')].op = "processGesture"
    /\ hist'[Len(hist')].gesture = g

\* what the step's call returns
Emitted == hist'[Len(hist')].ret

GateUnchanged ==
    lastGesture' = lastGesture /\ gestureStartTime' = gestureStartTime

\* the latest call was processGesture
LatestFed == hist # <<>> /\ Latest.op = "processGesture"

\* C1: a non-none gesture fed while now - gestureStartTime < cooldownMs emits
\* nothing and leaves lastGesture and gestureStartTime as they were, whether
\* or not it differs from lastGesture.
C1_GlobalCooldown ==
    [][\A g \in Gesture \ {"none"} :
          (Fed(g) /\ now' - gestureStartTime < cooldownMs)
             => (Emitted = NULL /\ GateUnchanged)]_vars

\* a gesture other than the recorded one was fed inside the cooldown of an
\* emitted gesture and was suppressed
C1_Witness ==
    /\ Len(hist) >= 2
    /\ LatestFed /\ Latest.gesture \notin {"none", lastGesture} /\ Latest.ret = NULL
    /\ hist[Len(hist) - 1].ret = lastGesture
    /\ lastGesture # "none"
    /\ now - gestureStartTime < cooldownMs

\* C2: a non-none gesture equal to lastGesture emits nothing and leaves the
\* fields as they were, at any clock reading.
C2_SameGestureSuppressed ==
    [][\A g \in Gesture \ {"none"} :
          (Fed(g) /\ g = lastGesture) => (Emitted = NULL /\ GateUnchanged)]_vars

\* the recorded gesture was fed again after the cooldown had elapsed and was
\* suppressed
C2_Witness ==
    /\ LatestFed /\ Latest.gesture = lastGesture /\ Latest.ret = NULL
    /\ lastGesture # "none"
    /\ now - gestureStartTime >= cooldownMs

C5_HeldGestureOnce == runEmits <= 1

\* three calls in a row fed one gesture, the cooldown of its one emission has
\* elapsed, and the latest call emitted nothing
C5_Witness ==
    /\ Len(hist) = 3
    /\ \A k \in 1..3 : hist[k].op = "processGesture" /\ hist[k].gesture = lastGesture
    /\ lastGesture # "none"
    /\ runEmits = 1
    /\ Latest.ret = NULL
    /\ now - gestureStartTime >= cooldownMs

\* C6: once now - gestureStartTime >= cooldownMs, a non-none gesture that
\* differs from lastGesture is emitted and recorded with the clock reading.
C6_DifferentAfterCooldown ==
    [][\A g \in Gesture \ {"none"} :
          (Fed(g) /\ g # lastGesture /\ now' - gestureStartTime >= cooldownMs)
             => (Emitted = g /\ lastGesture' = g /\ gestureStartTime' = now')]_vars

\* two calls in a row emitted two different gestures, no none in between
C6_Witness ==
    /\ Len(hist) >= 2
    /\ LatestFed /\ Latest.ret = Latest.gesture /\ Latest.gesture # "none"
    /\ hist[Len(hist) - 1].op = "processGesture"
    /\ hist[Len(hist) - 1].ret \notin {NULL, Latest.gesture}
    /\ lastGesture = Latest.gesture /\ gestureStartTime = now

\* C7 as stated: whenever lastGesture = none, the next non-none gesture G is
\* emitted and recorded with its clock reading.
C7_IdleEmitsAlways ==
    [][\A g \in Gesture \ {"none"} :
          (lastGesture = "none" /\ Fed(g))
             => (Emitted = g /\ lastGesture' = g /\ gestureStartTime' = now')]_vars

\* C7 amended: the same when also now - gestureStartTime >= cooldownMs.
C7_IdleEmits ==
    [][\A g \in Gesture \ {"none"} :
          (lastGesture = "none" /\ Fed(g) /\ now' - gestureStartTime >= cooldownMs)
             => (Emitted = g /\ lastGesture' = g /\ gestureStartTime' = now')]_vars

\* a gesture was emitted, a none input cleared lastGesture, and the gesture fed
\* next was emitted
C7_Witness ==
    /\ Len(hist) = 3
    /\ hist[1].op = "processGesture" /\ hist[1].ret # NULL
    /\ hist[2].op = "processGesture" /\ hist[2].gesture = "none"
    /\ hist[3].op = "processGesture" /\ hist[3].ret = hist[3].gesture
    /\ hist[3].gesture # "none"
    /\ lastGesture = hist[3].gesture /\ gestureStartTime = now

\* C8: processGesture(none) emits nothing, sets lastGesture to none and leaves
\* gestureStartTime as it was.
C8_NoneClearsOnly ==
    [][Fed("none")
          => (/\ Emitted = NULL
              /\ lastGesture' = "none"
              /\ gestureStartTime' = gestureStartTime)]_vars

\* a none input arrived inside the cooldown of the gesture emitted just before
C8_Witness ==
    /\ Len(hist) >= 2
    /\ LatestFed /\ Latest.gesture = "none" /\ Latest.ret = NULL
    /\ hist[Len(hist) - 1].ret # NULL
    /\ lastGesture = "none"
    /\ gestureStartTime > 0
    /\ now - gestureStartTime < cooldownMs

\* C32: with no reset() between them, two successive emitted events are at
\* least cooldownMs apart, however many none inputs were fed between them.
C32_MinimumSpacing ==
    emits.gap # NoTime => emits.gap >= cooldownMs

\* two events were emitted exactly cooldownMs apart with two or more none
\* inputs between them
C32_Witness ==
    /\ emits.gap = cooldownMs
    /\ emits.nones = 2
    /\ LatestFed /\ Latest.ret # NULL
    /\ emits.last = now

----------------------------------------------------------------------------
(* Claims about detectGesture and the classifiers *)

\* C9: a current frame the dispatcher accepts and isFist holds of is
\* classified fist whatever the previous frame is.
C9_FistPriority ==
    (/\ ret.fn = "detectGesture"
     /\ ~landmarks.null /\ Len(landmarks.pts) >= HandPoints
     /\ ~isFist(landmarks).threw /\ isFist(landmarks).value)
       => (~ret.out.threw /\ ret.out.value = "fist")

\* a fist frame was classified fist although its palm centre moved from the
\* previous frame far enough for a swipe
C9_Witness ==
    /\ ret.fn = "detectGesture"
    /\ ~ret.out.threw /\ ret.out.value = "fist"
    /\ ~previousLandmarks.null /\ Len(previousLandmarks.pts) = HandPoints
    /\ \A f \in 1..4 :
          landmarks.pts[Fingers[f].mcp + 1].y - landmarks.pts[Fingers[f].tip + 1].y < 70
    /\ previousLandmarks.pts[WRIST + 1].x - landmarks.pts[WRIST + 1].x > 15

\* C10: for a current frame that is null or has fewer than 21 points, isFist
\* and isPalmOpen return false, getPalmCenter returns (0, 0) and
\* detectGesture returns none, none of them throwing.
C10_InvalidFrameIsNoHand ==
    (landmarks.null \/ Len(landmarks.pts) < 21)
       => /\ ~ret.out.threw
          /\ ret.fn = "isFist" => ret.out.value = FALSE
          /\ ret.fn = "isPalmOpen" => ret.out.value = FALSE
          /\ ret.fn = "getPalmCenter" => ret.out.value = [x |-> 0, y |-> 0]
          /\ ret.fn = "detectGesture" => ret.out.value = "none"

\* detectGesture returned none for a frame of 20 points whose previous frame
\* is a full hand a swipe away
C10_Witness ==
    /\ ret.fn = "detectGesture" /\ ~ret.out.threw /\ ret.out.value = "none"
    /\ ~landmarks.null /\ Len(landmarks.pts) = 20
    /\ ~previousLandmarks.null /\ Len(previousLandmarks.pts) = 21
    /\ previousLandmarks.pts[WRIST + 1].y - landmarks.pts[WRIST + 1].y > 15

\* the palm centre's move from the previous frame to the current one, read
\* off the wrists (a hand of the model moves as a whole)
WristDX == landmarks.pts[WRIST + 1].x - previousLandmarks.pts[WRIST + 1].x
WristDY == landmarks.pts[WRIST + 1].y - previousLandmarks.pts[WRIST + 1].y

FullHand(l) == ~l.null /\ Len(l.pts) >= 21

NotFist(l) ==
    \E f \in 1..4 : l.pts[Fingers[f].mcp + 1].y - l.pts[Fingers[f].tip + 1].y >= 70

\* C11 as stated: a frame that is null or whose length is anything but 21,
\* longer ones included, is answered false, false, (0, 0) and none.
C11_OtherLengthIsNoHand ==
    (landmarks.null \/ Len(landmarks.pts) # 21)
       => /\ ~ret.out.threw
          /\ ret.fn = "isFist" => ret.out.value = FALSE
          /\ ret.fn = "isPalmOpen" => ret.out.value = FALSE
          /\ ret.fn = "getPalmCenter" => ret.out.value = [x |-> 0, y |-> 0]
          /\ ret.fn = "detectGesture" => ret.out.value = "none"

\* C12: a current frame with a hand that is no fist, together with a previous
\* frame that is null or short, is classified none without an error.
C12_NoPreviousNoSwipe ==
    (/\ ret.fn = "detectGesture"
     /\ FullHand(landmarks) /\ NotFist(landmarks)
     /\ (previousLandmarks.null \/ Len(previousLandmarks.pts) < 21))
       => (~ret.out.threw /\ ret.out.value = "none")

\* an open hand after a previous frame of 20 points was classified none
C12_Witness ==
    /\ ret.fn = "detectGesture" /\ ~ret.out.threw /\ ret.out.value = "none"
    /\ FullHand(landmarks) /\ NotFist(landmarks)
    /\ ~previousLandmarks.null /\ Len(previousLandmarks.pts) = 20

\* C13: getSwipeDirection is up when dy < -15; else left when dx > 15; else
\* right when dx < -15; else null, all comparisons strict.
C13_SwipeDirection ==
    (ret.fn = "getSwipeDirection" /\ FullHand(landmarks) /\ FullHand(previousLandmarks))
       => ret.out.value = (IF WristDY < -15 THEN "up"
                           ELSE IF WristDX > 15 THEN "left"
                           ELSE IF WristDX < -15 THEN "right"
                           ELSE NULL)

\* a move of exactly the threshold to the right got no direction
C13_Witness ==
    /\ ret.fn = "getSwipeDirection" /\ ret.out.value = NULL
    /\ FullHand(landmarks) /\ FullHand(previousLandmarks)
    /\ WristDX = 15 /\ WristDY = 0

\* C31 as stated: getSwipeDirection classifies a pair as up only when dy < -15
\* and |dy| > |dx|; a move with |dx| >= |dy| beyond the frame threshold is
\* classified left or right even when dy < -15.
C31_DominanceRule ==
    (ret.fn = "getSwipeDirection" /\ FullHand(landmarks) /\ FullHand(previousLandmarks))
       => /\ ret.out.value = "up" => (WristDY < -15 /\ Abs(WristDY) > Abs(WristDX))
          /\ (Abs(WristDX) >= Abs(WristDY) /\ Abs(WristDX) > 15)
                => ret.out.value \in {"left", "right"}

\* C31 amended: getSwipeDirection checks the vertical move first and compares
\* no magnitudes: a pair with dy < -15 is classified up whatever dx is, so a
\* move with |dx| >= |dy| is classified left or right only when dy >= -15;
\* where SwipeTracker.track's dominant direction of the same pair is up,
\* getSwipeDirection gives up or, within the threshold, nothing.
C31_VerticalFirst ==
    (ret.fn = "getSwipeDirection" /\ FullHand(landmarks) /\ FullHand(previousLandmarks))
       => /\ WristDY < -15 => ret.out.value = "up"
          /\ ret.out.value \in {"left", "right"}
                => (WristDY >= -15 /\ Abs(WristDX) > 15)
          /\ CurrentDir(WristDX, WristDY) = "up" => ret.out.value \in {"up", NULL}

\* a move as far to the right as upwards, beyond the frame threshold, was
\* classified up, where SwipeTracker.track sees the dominant direction left
C31_Witness ==
    /\ ret.fn = "getSwipeDirection" /\ ret.out.value = "up"
    /\ FullHand(landmarks) /\ FullHand(previousLandmarks)
    /\ WristDX = 20 /\ WristDY = -20
    /\ CurrentDir(WristDX, WristDY) = "left"

\* C14 as stated: detectGesture never returns swipe-left or swipe-right.
C14_DispatcherOnlySwipeUp ==
    ret.fn = "detectGesture" => (~ret.out.threw /\ ret.out.value \notin {"swipe-left", "swipe-right"})

\* C14 amended: for a hand that is no fist and a previous frame with a hand,
\* detectGesture returns swipe-up, swipe-left, swipe-right or none as the
\* palm centre's move says, left and right included.
C14_DispatcherSwipes ==
    (/\ ret.fn = "detectGesture"
     /\ FullHand(landmarks) /\ NotFist(landmarks) /\ FullHand(previousLandmarks))
       => /\ ~ret.out.threw
          /\ ret.out.value = (IF WristDY < -15 THEN "swipe-up"
                              ELSE IF WristDX > 15 THEN "swipe-left"
                              ELSE IF WristDX < -15 THEN "swipe-right"
                              ELSE "none")

\* detectGesture returned swipe-left for a hand moved to the right
C14_Witness ==
    /\ ret.fn = "detectGesture" /\ ~ret.out.threw /\ ret.out.value = "swipe-left"
    /\ FullHand(landmarks) /\ FullHand(previousLandmarks)
    /\ WristDX > 15

\* how far the tip of finger f lies above its knuckle
FingerGap(l, f) == l.pts[Fingers[f].mcp + 1].y - l.pts[Fingers[f].tip + 1].y

\* C24: isFist of a frame of 21 points is true exactly when each of the
\* index, middle, ring and little finger has its tip less than 0.07 above
\* its knuckle, wherever the thumb and the other joints lie and whatever the
\* x coordinates are.
C24_FistIffAllClosed ==
    ret.fn = "isFist" =>
        /\ ~ret.out.threw
        /\ ret.out.value <=> \A f \in 1..4 : FingerGap(landmarks, f) < 70

\* a fist with the thumb moved away: three tips 0.05 above the knuckle, one
\* 0.06
C24_Witness ==
    /\ ret.fn = "isFist" /\ ~ret.out.threw /\ ret.out.value
    /\ landmarks.pts[4 + 1] = [x |-> 535, y |-> 455]
    /\ FingerGap(landmarks, 1) = 60
    /\ \A f \in 2..4 : FingerGap(landmarks, f) = 50

\* C25: isPalmOpen of a frame of 21 points is true exactly when at least 3
\* of the index, middle, ring and little finger have their tip more than
\* 0.05 above the knuckle.
C25_OpenIffThreeExtended ==
    ret.fn = "isPalmOpen" =>
        /\ ~ret.out.threw
        /\ ret.out.value <=>
              Cardinality({f \in 1..4 : FingerGap(landmarks, f) > 50}) >= 3

\* an open palm with one finger exactly 0.05 above its knuckle and the
\* other three extended
C25_Witness ==
    /\ ret.fn = "isPalmOpen" /\ ~ret.out.threw /\ ret.out.value
    /\ FingerGap(landmarks, 2) = 50
    /\ \A f \in {1, 3, 4} : FingerGap(landmarks, f) > 50

\* C34: isFist and isPalmOpen are never both true of a frame of 21 points.
C34_FistExcludesOpen ==
    (ret.fn = "isFist" /\ FullHand(landmarks) /\ ~ret.out.threw /\ ret.out.value)
       => \A open \in {isPalmOpen(landmarks)} : ~open.threw /\ ~open.value

\* C26: getPalmCenter of a frame of 21 points is, in x and in y, the mean of
\* the wrist and the four knuckles, wherever the other joints lie.
C26_PalmCenterIsMean ==
    ret.fn = "getPalmCenter" =>
        /\ ~ret.out.threw
        /\ 5 * ret.out.value.x =
              landmarks.pts[0 + 1].x + landmarks.pts[5 + 1].x + landmarks.pts[9 + 1].x
                 + landmarks.pts[13 + 1].x + landmarks.pts[17 + 1].x
        /\ 5 * ret.out.value.y =
              landmarks.pts[0 + 1].y + landmarks.pts[5 + 1].y + landmarks.pts[9 + 1].y
                 + landmarks.pts[13 + 1].y + landmarks.pts[17 + 1].y

\* the wrist moved by (0.05, 0.025) moves the centre by a fifth of that, and
\* the tips, 0.07 above the knuckles, do not enter it
C26_Witness ==
    /\ ret.fn = "getPalmCenter" /\ ~ret.out.threw
    /\ ret.out.value = [x |-> 510, y |-> 505]
    /\ landmarks.pts[WRIST + 1] = [x |-> 550, y |-> 685]
    /\ \A f \in 1..4 : FingerGap(landmarks, f) = 70

----------------------------------------------------------------------------
(* Claims about the MotionTracker.  In a step that calls track, tracked'   *)
(* holds the delta fed and the value returned; accumulatedX, accumulatedY, *)
(* frameCount and lastDirection are the fields before the call, the primed *)
(* ones after it.                                                          *)

\* the step is a call of track, with the delta (FedDX, FedDY)
Tracks == tracked'.op = "track"
FedDX == tracked'.dx
FedDY == tracked'.dy

Mag(v) == IF v < 0 THEN -v ELSE v

\* the instantaneous direction of a delta, as the claims define it
DirOf(dx, dy) ==
    IF Mag(dy) > Mag(dx) /\ dy < 0 THEN "up"
    ELSE IF dx > 0 THEN "left"
    ELSE IF dx < 0 THEN "right"
    ELSE "none"

LastDir == IF lastDirection = NULL THEN "none" ELSE lastDirection

\* the delta reverses the direction recorded
Reverses(dx, dy) ==
    LastDir # "none" /\ DirOf(dx, dy) # "none" /\ DirOf(dx, dy) # LastDir

\* the sums once the delta is integrated
SumAfterX(dx, dy) == (IF Reverses(dx, dy) THEN 0 ELSE accumulatedX) + dx
SumAfterY(dx, dy) == (IF Reverses(dx, dy) THEN 0 ELSE accumulatedY) + dy

Zeroed == accumulatedX = 0 /\ accumulatedY = 0 /\ frameCount = 0

\* C16: while upward deltas are fed with no reversal, the call on which the
\* accumulated dy first falls below -60 returns up, no earlier call does, and
\* after it the sums and the frame count are zero, so that the call after it
\* returns up only if its own dy is below -60.
C16_UpEmittedOnce ==
    [][LET dx == FedDX
           dy == FedDY
       IN (Tracks /\ DirOf(dx, dy) = "up" /\ LastDir \in {"none", "up"})
             => /\ (accumulatedY + dy < -60) => (tracked'.ret = "up" /\ Zeroed')
                /\ (accumulatedY + dy >= -60) => tracked'.ret # "up"
                /\ (tracked.ret = "up" /\ dy >= -60) => tracked'.ret # "up"]_vars

\* steps of -20 were fed and the latest one returned up, leaving zeros
C16_Witness ==
    /\ tracked.op = "track" /\ tracked.ret = "up" /\ ~tracked.reversed
    /\ tracked.dx = 0 /\ tracked.dy = -20
    /\ accumulatedX = 0 /\ accumulatedY = 0 /\ frameCount = 0

\* C17: with the sums after the delta is integrated, sy >= -60 and |sx| > 60
\* make track return left for sx > 0 and right otherwise and zero the
\* accumulator; sy < -60 together with |sx| > 60 makes it return up.
C17_HorizontalAndTie ==
    [][LET dx == FedDX
           dy == FedDY
       IN (Tracks /\ Mag(SumAfterX(dx, dy)) > 60)
             => /\ tracked'.ret = (IF SumAfterY(dx, dy) < -60 THEN "up"
                                   ELSE IF SumAfterX(dx, dy) > 0 THEN "left"
                                   ELSE "right")
                /\ Zeroed']_vars

\* one delta crossed both thresholds and up was returned
C17_Witness ==
    /\ tracked.op = "track" /\ tracked.ret = "up"
    /\ tracked.dx = 65 /\ tracked.dy = -65
    /\ accumulatedX = 0 /\ accumulatedY = 0 /\ frameCount = 0

\* C18: a delta whose direction differs from a recorded direction, neither
\* being none, and which crosses no threshold by itself leaves the sums equal
\* to that delta and the frame count at 1.
C18_ReversalDiscards ==
    [][LET dx == FedDX
           dy == FedDY
       IN (Tracks /\ Reverses(dx, dy) /\ dy >= -60 /\ Mag(dx) <= 60)
             => /\ accumulatedX' = dx
                /\ accumulatedY' = dy
                /\ frameCount' = 1
                /\ tracked'.ret = NULL]_vars

\* after a move to the left a delta to the right was fed: the sums hold that
\* delta alone
C18_Witness ==
    /\ tracked.op = "track" /\ tracked.reversed /\ tracked.ret = NULL
    /\ tracked.dx = -20 /\ tracked.dy = 0
    /\ accumulatedX = -20 /\ accumulatedY = 0 /\ frameCount = 1
    /\ lastDirection = "right"

\* C19: the 10th of 10 track calls in a row from a reset tracker, none of
\* which crossed a threshold or reversed the direction, returns null and
\* leaves the sums and the frame count at zero.
C19_StaleReset ==
    [][LET dx == FedDX
           dy == FedDY
       IN (/\ Tracks /\ tracked.quiet = 9
           /\ ~Reverses(dx, dy)
           /\ accumulatedY + dy >= -60 /\ Mag(accumulatedX + dx) <= 60)
             => (tracked'.ret = NULL /\ Zeroed')]_vars

\* a drifting hand: the call that returned null and zeroed the accumulator
\* although it neither reversed nor crossed
C19_Witness ==
    /\ tracked.op = "track" /\ tracked.ret = NULL /\ ~tracked.reversed
    /\ tracked.dx = 5 /\ tracked.dy = 0
    /\ tracked.quiet = 0
    /\ accumulatedX = 0 /\ accumulatedY = 0 /\ frameCount = 0

\* C33: after every track call returns, and after reset, the frame count is
\* in 0..9, |accumulatedX| <= 60 and accumulatedY >= -60: no sum beyond a
\* threshold and no full frame count is carried into the next call.
C33_TrackerBounds ==
    /\ frameCount \in 0..(maxFrames - 1)
    /\ Abs(accumulatedX) <= SWIPE_THRESHOLD
    /\ accumulatedY >= -SWIPE_THRESHOLD

\* a track call returned leaving all three at their bounds: nine frames
\* counted, both sums exactly at the threshold
C33_Witness ==
    /\ tracked.op = "track" /\ tracked.ret = NULL
    /\ frameCount = maxFrames - 1
    /\ accumulatedX = SWIPE_THRESHOLD
    /\ accumulatedY = -SWIPE_THRESHOLD

----------------------------------------------------------------------------
(* Claims about the frame loop.  In a step that handles a frame, frame'    *)
(* holds what processFrame computed; previousLandmarksRef is the frame     *)
(* before and previousLandmarksRef' the frame handled.                     *)

\* the step handles a frame with a hand, a frame without one
HandSeen == frame'.op = "hand"
HandLost == frame'.op = "nohand"

\* the fields of the tracker are the ones before the step
TrackerUntouched ==
    UNCHANGED <<accumulatedX, accumulatedY, frameCount, lastDirection>>

\* the motion of the palm between the frame before and the frame handled
\* is a swipe of its own: its direction, null without one or without a
\* frame before
PairSwipe ==
    IF previousLandmarksRef.null THEN NULL
    ELSE getSwipeDirection(getPalmCenter(previousLandmarksRef').value,
                           getPalmCenter(previousLandmarksRef).value)

\* what the tracker answers when fed the frame pair of the step
Accumulated ==
    track(Tracker, getPalmCenter(previousLandmarksRef').value,
          getPalmCenter(previousLandmarksRef).value)

\* C15: on a frame with a hand the raw gesture is fist if the hand is a
\* fist, else the swipe of the frame pair if there is one, else the swipe
\* the tracker answers, else none; the tracker is asked exactly when
\* neither a fist nor a swipe of the frame pair was found and a frame before
\* exists, and on the frames of a fist or of a swipe of the frame pair its
\* fields stay as they were.
C15_FramePrecedence ==
    [][HandSeen =>
         \A fist \in {isFist(previousLandmarksRef').value} :
         \A dir \in {PairSwipe} :
            /\ frame'.asked <=>
                  (~fist /\ dir = NULL /\ ~previousLandmarksRef.null)
            /\ fist => frame'.detectedGesture = "fist"
            /\ (~fist /\ dir # NULL) => frame'.detectedGesture = swipeGesture(dir)
            /\ (fist \/ dir # NULL) => TrackerUntouched
            /\ (~fist /\ dir = NULL /\ ~previousLandmarksRef.null) =>
                  \A swipe \in {Accumulated} :
                     /\ frame'.detectedGesture = swipeGesture(swipe.ret)
                     /\ Tracker' = swipe.tracker
            /\ (~fist /\ dir = NULL /\ previousLandmarksRef.null) =>
                  (frame'.detectedGesture = "none" /\ TrackerUntouched)]_vars

\* a hand drifting by the per-frame threshold each frame: no fist, no swipe
\* of the frame pair, and the tracker answers left
C15_Witness ==
    /\ frame.hand /\ ~frame.first /\ frame.asked
    /\ frame.gesture = "none" /\ frame.detectedGesture = "swipe-left"
    /\ tracked.op = "track" /\ tracked.ret = "left"

\* C20: a frame without a hand leaves the gate's lastGesture and
\* gestureStartTime as they were, and the first gesture after the hand is
\* back, read less than cooldownMs after the emission before the loss, is
\* suppressed.
C20_HandLossKeepsGate ==
    [][/\ HandLost => UNCHANGED <<lastGesture, gestureStartTime>>
       /\ (HandSeen /\ ~frame.hand /\ now' - gestureStartTime < cooldownMs)
             => frame'.validGesture = NULL]_vars

\* the hand came back as a fist within the cooldown of a swipe emitted
\* before it was lost: the fist is not emitted
C20_Witness ==
    /\ frame.hand /\ frame.first /\ frame.detectedGesture = "fist"
    /\ frame.validGesture = NULL
    /\ lastGesture = "swipe-left"
    /\ gestureStartTime > 0 /\ now - gestureStartTime < cooldownMs

\* the motion of the palm between the frame before and the frame handled
PairDX ==
    getPalmCenter(previousLandmarksRef').value.x
       - getPalmCenter(previousLandmarksRef).value.x
PairDY ==
    getPalmCenter(previousLandmarksRef').value.y
       - getPalmCenter(previousLandmarksRef).value.y

\* C21: a frame without a hand leaves the tracker's sums and frame count at
\* zero, its last direction at null and no frame stored as the previous one;
\* when the frame after the first one of the hand that came back is fed to
\* the tracker, the sums hold the motion of that frame pair alone.
C21_HandLossResetsTracker ==
    [][/\ HandLost =>
            /\ Zeroed' /\ lastDirection' = NULL
            /\ previousLandmarksRef' = NullFrame
       /\ (frame.hand /\ frame.first /\ HandSeen /\ frame'.asked) =>
            /\ accumulatedX' = PairDX /\ accumulatedY' = PairDY
            /\ frameCount' = 1]_vars

\* a hand that had moved is lost: the tracker is at its reset values and no
\* previous frame is stored
C21_Witness ==
    /\ frame.op = "nohand" /\ ~frame.first
    /\ tracked.op = "reset"
    /\ Zeroed /\ lastDirection = NULL
    /\ previousLandmarksRef = NullFrame
    /\ lastGesture = "swipe-left"

----------------------------------------------------------------------------
(* Claims about the sessions of the component and its selection *)

\* the tracker and the gate as their constructors leave them
FreshTracker == Zeroed /\ lastDirection = NULL
FreshGate == lastGesture = "none" /\ gestureStartTime = 0

\* C23: when a tracking session starts (the effect has run, no frame
\* handled yet) the tracker and the gate are as constructed and no previous
\* frame is stored.
C23_SessionStartsFresh ==
    frame.op = "attach" =>
        (FreshTracker /\ FreshGate /\ previousLandmarksRef = NullFrame)

\* the palm x of the frame handled, mirrored
MirroredPalmX == 1000 - getPalmCenter(previousLandmarksRef').value.x

\* C29 as stated: an emitted swipe-left moves the hover index one card to the
\* left, an emitted swipe-right one card to the right.
C29_SwipeMovesHover ==
    [][/\ (HandSeen /\ frame'.validGesture = "swipe-left")
             => hoveredIndex' = hoveredIndex - 1
       /\ (HandSeen /\ frame'.validGesture = "swipe-right")
             => hoveredIndex' = hoveredIndex + 1]_vars

\* C29 amended: a frame with a hand puts the hover index on the card whose
\* slot, a NumCards-th of the middle 0.8 of the picture, holds the mirrored
\* palm x (the first card for a palm right of all slots), and leaves it as it
\* was for a palm left of all slots; the event emitted plays no part.
C29_HoverFollowsPalm ==
    [][HandSeen =>
         \A m \in {MirroredPalmX} :
            /\ m >= 900 => hoveredIndex' = hoveredIndex
            /\ m < 900 =>
                 \E i \in 0..(NumCards - 1) :
                    /\ hoveredIndex' = i
                    /\ i = 0 \/ 800 * i <= (m - 100) * NumCards
                    /\ (m - 100) * NumCards < 800 * (i + 1)]_vars

\* a swipe-left was emitted for a palm that moved from 0.5 to 0.53, and the
\* hover index is the card the palm is over
C29_Witness ==
    /\ frame.op = "hand" /\ frame.validGesture = "swipe-left"
    /\ getPalmCenter(previousLandmarksRef).value.x = 530
    /\ hoveredIndex = 4

\* the ids in a selection
Ids(selection) == {selection[i] : i \in 1..Len(selection)}

\* the step calls handleCardSelect, from a gesture or from a click
SelectCalled == frame'.op \in {"hand", "click"} /\ frame'.cardId # NoIndex

NoDuplicates(selection) ==
    \A i, j \in 1..Len(selection) : selection[i] = selection[j] => i = j

\* C35: after every handleCardSelect call, from a gesture or a click,
\* selectedCardIds holds no id twice and at most maxSelections ids, and a
\* call for an unselected card while maxSelections are selected leaves the
\* selection as it was.
C35_SelectionBounded ==
    [][/\ NoDuplicates(selectedCardIds')
       /\ Len(selectedCardIds') <= maxSelections
       /\ (/\ SelectCalled
           /\ Len(selectedCardIds) = maxSelections
           /\ ~Includes(selectedCardIds, frame'.cardId))
             => selectedCardIds' = selectedCardIds]_vars

\* a fourth card was clicked and is not among the three selected, the
\* hovered card, selected by a gesture, among them
C35_Witness ==
    /\ frame.op = "click" /\ frame.cardId # NoIndex
    /\ Len(selectedCardIds) = maxSelections
    /\ ~Includes(selectedCardIds, frame.cardId)
    /\ hoveredIndexRef # NoIndex /\ Includes(selectedCardIds, cards[hoveredIndexRef + 1])
    /\ frame.validGesture = "fist"

\* C36: isComplete is true exactly when maxSelections cards are selected.
C36_CompleteIffFull ==
    isComplete <=> Len(selectedCardIds) = maxSelections

\* C30: an emitted swipe-up or fist, with a card hovered (the index
\* processFrame reads) and fewer than maxSelections cards selected, leaves
\* that card in the selection, and no emitted event takes a card out of the
\* selection.
C30_EventSelectsHovered ==
    [][(HandSeen /\ frame'.validGesture \in {"swipe-up", "fist"}) =>
          /\ (hoveredIndexRef \in 0..(NumCards - 1)
                 /\ Len(selectedCardIds) < maxSelections)
                => cards[hoveredIndexRef + 1] \in Ids(selectedCardIds')
          /\ Ids(selectedCardIds) \subseteq Ids(selectedCardIds')]_vars

\* the card list of the call is missing or empty; its question is missing
\* or has nothing but white space
NoCards == analysis.selectedCards.null \/ analysis.selectedCards.items = <<>>
BlankQuestion ==
    \/ analysis.userQuestion.null
    \/ \A i \in 1..Len(analysis.userQuestion.chars) :
          analysis.userQuestion.chars[i] \in {" ", "\t", "\n"}

\* C28: a call of analyzeTarot without cards is rejected with the
\* select-a-card error, whatever the question is; one with cards and a
\* blank question is rejected with the enter-your-question error; in both
\* cases no request was made to a model.
C28_ValidatesFirst ==
    analysis.pc # "idle" =>
        /\ NoCards =>
              /\ analysis.pc = "done" /\ analysis.requests = 0
              /\ analysis.result = [threw |-> TRUE, value |-> "SelectCard"]
        /\ (~NoCards /\ BlankQuestion) =>
              /\ analysis.pc = "done" /\ analysis.requests = 0
              /\ analysis.result = [threw |-> TRUE, value |-> "EnterQuestion"]

\* an empty card list with a question of white space only: rejected for the
\* cards
C28_Witness ==
    /\ analysis.pc = "done" /\ analysis.requests = 0
    /\ ~analysis.selectedCards.null /\ analysis.selectedCards.items = <<>>
    /\ analysis.userQuestion.chars = <<" ", "\n">>
    /\ analysis.result = [threw |-> TRUE, value |-> "SelectCard"]

\* the generateContent calls of the analysis so far
Attempts == analysis.log

\* C37: the calls go to gemini-2.0-flash first and to gemini-1.5-flash only
\* from the fourth call on, after three retryable failures of the first
\* model; a call that fails with an error that is not retryable is the last
\* one and its error is what the analysis ends with; a call that succeeds is
\* the last one and its text is what the analysis goes on with.
C37_RetryOrder ==
    \A i \in 1..Len(Attempts) :
       /\ Attempts[i].model = (IF i <= 3 THEN "gemini-2.0-flash" ELSE "gemini-1.5-flash")
       /\ i < Len(Attempts) => Attempts[i].outcome = "retryable"
       /\ Attempts[i].outcome # "retryable" =>
             /\ analysis.pc = "done"
             /\ analysis.result =
                   (IF Attempts[i].outcome = "json" THEN Ok("analysis")
                    ELSE IF Attempts[i].outcome = "garbage" THEN Err("ParseFailed")
                    ELSE IF Attempts[i].outcome = "API_KEY_INVALID" THEN Err("KeyInvalid")
                    ELSE IF Attempts[i].outcome = "value" THEN Err("Unknown")
                    ELSE Err("ServiceUnavailable"))

\* the first model failed three times with a retryable error, the fallback
\* model then failed with an error that is not retryable, and the analysis
\* ended there
C37_Witness ==
    /\ Len(Attempts) = 4
    /\ \A i \in 1..3 : Attempts[i].outcome = "retryable"
    /\ Attempts[4] = [model |-> "gemini-1.5-flash", outcome |-> "fatal", wait |-> 0]
    /\ analysis.pc = "done" /\ analysis.result = Err("ServiceUnavailable")

\* at most 6 calls; after the sixth the analysis has ended; it ends with the
\* all-models error exactly when 6 calls failed with a retryable error; a
\* retryable failure is followed by a delay of 2000 ms after a model's first
\* call and 4000 ms after its second, and by none after its third
AttemptsBounded ==
    /\ Len(Attempts) <= 6
    /\ Len(Attempts) = 6 => analysis.pc = "done"
    /\ (analysis.pc = "done" /\ analysis.result = Err("AllModelsUnavailable"))
          <=> (Len(Attempts) = 6 /\ \A i \in 1..6 : Attempts[i].outcome = "retryable")
    /\ \A i \in 1..Len(Attempts) :
          Attempts[i].wait = (IF Attempts[i].outcome # "retryable" THEN 0
                              ELSE IF i \in {1, 4} THEN 2000
                              ELSE IF i \in {2, 5} THEN 4000
                              ELSE 0)
    /\ analysis.pc = "waiting" =>
          /\ Attempts # <<>>
          /\ Attempts[Len(Attempts)].wait = analysis.waiting
          /\ analysis.waiting > 0

\* C38: generateWithRetry makes at most 6 calls and, whatever they end in,
\* the analysis that has reached it ends, with a result or an error (the
\* all-models error when every call failed retryably); a delay of
\* min(2000 * 2^attempt, 10000) ms is awaited only between two calls to the
\* same model.
C38_Terminates ==
    /\ []AttemptsBounded
    /\ (analysis.pc \in {"generating", "waiting"}) ~> (analysis.pc = "done")

\* all six calls failed with a retryable error: delays after the first two
\* calls to each model, the all-models error at the end
C38_Witness ==
    /\ Len(Attempts) = 6
    /\ \A i \in 1..6 : Attempts[i].outcome = "retryable"
    /\ Attempts[2].wait = 4000 /\ Attempts[3].wait = 0 /\ Attempts[4].wait = 2000
    /\ analysis.pc = "done" /\ analysis.result = Err("AllModelsUnavailable")

\* C27: the first frame with a hand after a frame without one, and the
\* first frame of a session, has fist or none as its raw gesture and is not
\* fed to the tracker.
C27_FirstFrameNoSwipe ==
    [][(HandSeen /\ ~frame.hand) =>
          /\ frame'.detectedGesture \in {"fist", "none"}
          /\ ~frame'.asked]_vars

----------------------------------------------------------------------------
(* Claims about the camera *)

\* the streams acquired whose tracks are running
Running == {i \in 1..Len(camera.calls) : camera.calls[i] = "live"}

\* C39: once the hook is torn down no acquired stream has running tracks,
\* whenever its getUserMedia call resolved.
C39_CameraReleased ==
    camera.unmounted => Running = {}

====
